---- MODULE Spec2Model ----
(***************************************************************************)
(* Resource estimation notebook for Trotterized vibronic dynamics          *)
(* (src/Resource_Estimation_Tutorial.ipynb).                               *)
(*                                                                         *)
(* The notebook is a sequence of cells over notebook-global variables.     *)
(* The variables below are those globals; every specification of this      *)
(* module runs one slice of the notebook, its Init being the state the     *)
(* earlier cells leave behind, with the values that come from data files   *)
(* and from the estimation library drawn from bounded sets.                *)
(*                                                                         *)
(* A resource estimate (library class Resources) is a record               *)
(*    [qm |-> [clean |-> c, algo |-> a], g |-> gate_types]                 *)
(* where gate_types is a function from gate names to counts (a dict).      *)
(* The notebook prints qm.clean + qm.algo as "Qubit Count".                *)
(***************************************************************************)
EXTENDS Integers, Sequences, FiniteSets, TLC

VARIABLES
    pc,             \* position in the slice of the notebook being run
    raised,         \* exception raised by the last cell run, or "none"
    N, M,           \* electronic states and vibrational modes of the loaded Hamiltonian
    k, b,           \* qubits per mode and qubits of the phase-gradient state
    mode_wires,     \* the notebook-global wires of the first mode
    res_Q, res_Qsquared, res_QrQs, res_kinetic,
    num_Qr, num_Qr2, num_QrQs, res_frag,
    res_list_OG, res_list_mode, step_OG_res, step_mode_res,
    num_frags_mode, res_unitary,
    heap,           \* the Resources objects, where a slice holds references to them
    norm_OG, norm_mode, nsteps_OG, nsteps_mode,
    res_initial, res_total_OG, res_total_mode,
    steps_log,      \* the calls of num_steps made so far, with their results
    ra, rb, rc, sums,       \* operands and results of the Resources arithmetic
    factor, prods,          \* integer factor and results of the scalar multiplication
    num_wires, gate_list    \* argument and result of AQFT_resource_decomp

vCir   == <<N, M, k, b, mode_wires>>
vUnit  == <<res_Q, res_Qsquared, res_QrQs, res_kinetic>>
vFrag  == <<num_Qr, num_Qr2, num_QrQs, res_frag>>
vStep  == <<res_list_OG, res_list_mode, step_OG_res, step_mode_res, num_frags_mode, res_unitary, heap>>
vNorm  == <<norm_OG, norm_mode, nsteps_OG, nsteps_mode>>
vTot   == <<res_initial, res_total_OG, res_total_mode>>
vAlg   == <<ra, rb, rc, sums, factor, prods>>
vQFT   == <<num_wires, gate_list>>
vars   == <<pc, raised, vCir, vUnit, vFrag, vStep, vNorm, vTot, steps_log, vAlg, vQFT>>

\* A notebook name that no cell has assigned yet.  A name that holds an
\* integer or an optional value v once assigned holds <<v>>.
Unset == <<>>
\* Python's None, for the optional norms.
None == <<>>

(***************************************************************************)
(* Bounds of the model.                                                    *)
(***************************************************************************)
MaxToff  == 2      \* largest Toffoli count of a drawn estimate
MaxT     == 1      \* largest T count of a drawn estimate
MaxClean == 1      \* largest clean-qubit count of a drawn estimate
MaxAlgo  == 2      \* largest algorithmic-qubit count of a drawn estimate

(***************************************************************************)
(* Resources arithmetic of the estimation library.                         *)
(***************************************************************************)
Max(x, y) == IF x >= y THEN x ELSE y

\* dict.get(name, 0)
Get(gt, name) == IF name \in DOMAIN gt THEN gt[name] ELSE 0

\* ResAdd with the qubits of the left operand kept instead of the maxima.
ResAdd_LeftQubits(r1, r2) ==
    [qm |-> r1.qm,
     g  |-> [x \in (DOMAIN r1.g) \cup (DOMAIN r2.g) |-> Get(r1.g, x) + Get(r2.g, x)]]

\* Resources.__add__ (add_in_series): gate counts add key by key over the
\* union of the keys; clean and algorithmic qubits are each the maximum.
ResAdd(r1, r2) ==
    [qm |-> [clean |-> Max(r1.qm.clean, r2.qm.clean),
             algo  |-> Max(r1.qm.algo, r2.qm.algo)],
     g  |-> [x \in (DOMAIN r1.g) \cup (DOMAIN r2.g) |-> Get(r1.g, x) + Get(r2.g, x)]]

\* ResMul with the scalar applied to the Toffoli count only.
ResMul_ToffoliOnly(r, scalar) ==
    [qm |-> r.qm, g |-> [x \in DOMAIN r.g |-> IF x = "Toffoli" THEN r.g[x] * scalar ELSE r.g[x]]]

\* Resources.__mul__ / __rmul__ (mul_in_series): every gate count is
\* multiplied by the scalar; the qubits are those of the operand.
ResMul(r, scalar) ==
    [qm |-> r.qm, g |-> [x \in DOMAIN r.g |-> r.g[x] * scalar]]

\* Resources.__eq__: equal gate_types dicts and equal qubit managers.
ResEq(r1, r2) == r1.g = r2.g /\ r1.qm = r2.qm

\* res.clean_gate_counts.get("Toffoli", 0)
Toffoli(r) == Get(r.g, "Toffoli")

\* res.qubit_manager.total_qubits
TotalQubits(r) == r.qm.clean + r.qm.algo

\* The gate types the drawn estimates carry.
Gates == {"Toffoli", "T"}

\* The estimates drawn as inputs.
ResSet ==
    {[qm |-> [clean |-> c, algo |-> a], g |-> [x \in Gates |-> IF x = "Toffoli" THEN t ELSE u]] :
        c \in 0..MaxClean, a \in 1..MaxAlgo, t \in 0..MaxToff, u \in 0..MaxT}

\* The drawn estimates of one register layout (the fragments of one
\* Hamiltonian are all estimated on the same wires).
FragSet == {r \in ResSet : r.qm = [clean |-> 0, algo |-> 1]}

(***************************************************************************)
(* SpecAlg: the Resources arithmetic applied to drawn operands.            *)
(***************************************************************************)
IdleCir  == N = Unset /\ M = Unset /\ k = Unset /\ b = Unset /\ mode_wires = Unset
IdleUnit == res_Q = Unset /\ res_Qsquared = Unset /\ res_QrQs = Unset /\ res_kinetic = Unset
IdleFrag == num_Qr = Unset /\ num_Qr2 = Unset /\ num_QrQs = Unset /\ res_frag = Unset
IdleStep == /\ res_list_OG = Unset /\ res_list_mode = Unset /\ step_OG_res = Unset /\ step_mode_res = Unset
            /\ num_frags_mode = Unset /\ res_unitary = Unset /\ heap = Unset
IdleNorm == norm_OG = Unset /\ norm_mode = Unset /\ nsteps_OG = Unset /\ nsteps_mode = Unset
IdleTot  == res_initial = Unset /\ res_total_OG = Unset /\ res_total_mode = Unset
IdleAlg  == ra = Unset /\ rb = Unset /\ rc = Unset /\ sums = Unset /\ factor = Unset /\ prods = Unset
IdleQFT  == num_wires = Unset /\ gate_list = Unset
IdleLog  == steps_log = {}

InitAlg ==
    /\ pc = "alg" /\ raised = "none"
    /\ ra \in ResSet /\ rb \in ResSet /\ rc \in ResSet
    /\ sums = Unset /\ factor = Unset /\ prods = Unset
    /\ IdleCir /\ IdleUnit /\ IdleFrag /\ IdleStep /\ IdleNorm /\ IdleTot /\ IdleLog /\ IdleQFT

\* a + b, b + a, (a + b) + c and a + (b + c), as the cells aggregate costs.
AddCell ==
    /\ pc = "alg"
    /\ sums' = [ab  |-> ResAdd(ra, rb),
                ba  |-> ResAdd(rb, ra),
                abc |-> ResAdd(ResAdd(ra, rb), rc),
                a_bc |-> ResAdd(ra, ResAdd(rb, rc))]
    /\ pc' = "done"
    /\ UNCHANGED <<raised, ra, rb, rc, factor, prods, vCir, vUnit, vFrag, vStep, vNorm, vTot, steps_log, vQFT>>

NextAlg == AddCell
SpecAlg == InitAlg /\ [][NextAlg]_vars

\* C3: addition of resource estimates is associative and commutative in
\* the qubit count and in every per-gate-type count.
C3_AddAssocComm ==
    pc = "done" /\ sums # Unset =>
        /\ sums.abc = sums.a_bc
        /\ sums.ab = sums.ba
        /\ TotalQubits(sums.abc) = TotalQubits(sums.a_bc)
        /\ \A x \in Gates : sums.abc.g[x] = ra.g[x] + rb.g[x] + rc.g[x]
                         /\ sums.ab.g[x] = ra.g[x] + rb.g[x]

\* Three pairwise different operands with different qubit counts have been added.
C3_Witness ==
    /\ pc = "done" /\ sums # Unset
    /\ ra # rb /\ rb # rc /\ ra # rc
    /\ ra.qm.algo < rb.qm.algo /\ rc.qm.clean > rb.qm.clean
    /\ ra.g["Toffoli"] > 0 /\ rb.g["T"] > 0 /\ rc.g["Toffoli"] > 0

(***************************************************************************)
(* SpecMul: a Resources object multiplied by an integer, as the step and   *)
(* total cost cells do (res * 2, step_OG_res * nsteps_OG).                 *)
(***************************************************************************)
MaxScalar == 4     \* largest integer factor drawn

\* Resources.__rmul__: n * r, an alias of __mul__ in the library.
ResRMul(n, r) == ResMul(r, n)

RECURSIVE RepeatAdd(_, _)
\* r + r + ... + r with n >= 1 operands, added from the left.
RepeatAdd(r, n) == IF n = 1 THEN r ELSE ResAdd(RepeatAdd(r, n - 1), r)

InitMul ==
    /\ pc = "mul" /\ raised = "none"
    /\ ra \in ResSet /\ factor \in 1..MaxScalar
    /\ rb = Unset /\ rc = Unset /\ sums = Unset /\ prods = Unset
    /\ IdleCir /\ IdleUnit /\ IdleFrag /\ IdleStep /\ IdleNorm /\ IdleTot /\ IdleLog /\ IdleQFT

\* r * n, n * r and the sum of n copies of r.
MulCell ==
    /\ pc = "mul"
    /\ prods' = [right    |-> ResMul(ra, factor),
                 left     |-> ResRMul(factor, ra),
                 repeated |-> RepeatAdd(ra, factor)]
    /\ pc' = "done"
    /\ UNCHANGED <<raised, ra, rb, rc, sums, factor, vCir, vUnit, vFrag, vStep, vNorm, vTot, steps_log, vQFT>>

NextMul == MulCell
SpecMul == InitMul /\ [][NextMul]_vars

\* C11: for every estimate r and integer n >= 1, n * r and r * n have the
\* per-gate-type counts of r added to itself n times; r * 2 equals r + r.
C11_MulRepeatedAdd ==
    pc = "done" /\ prods # Unset =>
        /\ prods.right.g = prods.repeated.g
        /\ prods.left.g = prods.repeated.g
        /\ \A x \in Gates : prods.right.g[x] = factor * ra.g[x]
        /\ (factor = 2 => ResEq(prods.right, ResAdd(ra, ra)))

\* An estimate with gates of both types has been multiplied by three.
C11_Witness ==
    /\ pc = "done" /\ prods # Unset
    /\ factor = 3 /\ ra.g["Toffoli"] = 2 /\ ra.g["T"] = 1
    /\ prods.left.g["Toffoli"] = 6 /\ prods.repeated.g["T"] = 3

(***************************************************************************)
(* SpecFrag: the body of the fragment loops (the cost of one non-kinetic   *)
(* fragment from its term counts).                                         *)
(***************************************************************************)
MaxCount == 2      \* largest number of terms of one type in a fragment

\* FragCost with the quadratic terms charged at the cost of a linear term.
FragCost_LinearForQuadratic(nQr, nQr2, nQrQs, rQ, rQsquared, rQrQs) ==
    ResAdd(ResAdd(ResMul(rQ, nQr), ResMul(rQ, nQr2)), ResMul(rQrQs, nQrQs))

\* res_frag = num_Qr * res_Q + num_Qr2 * res_Qsquared + num_QrQs * res_QrQs
FragCost(nQr, nQr2, nQrQs, rQ, rQsquared, rQrQs) ==
    ResAdd(ResAdd(ResMul(rQ, nQr), ResMul(rQsquared, nQr2)), ResMul(rQrQs, nQrQs))

InitFrag ==
    /\ pc = "frag" /\ raised = "none"
    /\ res_Q \in FragSet /\ res_Qsquared \in FragSet /\ res_QrQs \in FragSet
    /\ res_kinetic = Unset
    /\ IdleFrag
    /\ IdleCir /\ IdleStep /\ IdleNorm /\ IdleTot /\ IdleLog /\ IdleAlg /\ IdleQFT

\* One iteration of the loop over the fragments: count_nonzero_Q_terms
\* returns the three term counts of the fragment, then the weighted sum.
FragLoopBody ==
    /\ pc = "frag"
    /\ \E nQr \in 0..MaxCount, nQr2 \in 0..MaxCount, nQrQs \in 0..MaxCount :
          /\ num_Qr' = <<nQr>> /\ num_Qr2' = <<nQr2>> /\ num_QrQs' = <<nQrQs>>
          /\ res_frag' = FragCost(nQr, nQr2, nQrQs, res_Q, res_Qsquared, res_QrQs)
    /\ pc' = "done"
    /\ UNCHANGED <<raised, vUnit, vCir, vStep, vNorm, vTot, steps_log, vAlg, vQFT>>

NextFrag == FragLoopBody
SpecFrag == InitFrag /\ [][NextFrag]_vars

\* C4: every per-gate-type count of a fragment's estimate is the weighted
\* sum of the three unit costs' counts, the weights being its term counts;
\* a fragment with no terms costs zero gates.
C4_FragWeightedSum ==
    pc = "done" /\ res_frag # Unset =>
        /\ \A x \in Gates :
              res_frag.g[x] = num_Qr[1] * res_Q.g[x] + num_Qr2[1] * res_Qsquared.g[x]
                                + num_QrQs[1] * res_QrQs.g[x]
        /\ (num_Qr[1] = 0 /\ num_Qr2[1] = 0 /\ num_QrQs[1] = 0
               => \A x \in DOMAIN res_frag.g : res_frag.g[x] = 0)

\* A fragment with terms of all three types, of unit costs that differ.
C4_Witness ==
    /\ pc = "done" /\ res_frag # Unset
    /\ num_Qr[1] = 1 /\ num_Qr2[1] = 2 /\ num_QrQs[1] = 1
    /\ res_Q.g["Toffoli"] = 1 /\ res_Qsquared.g["Toffoli"] = 2 /\ res_QrQs.g["T"] = 1
    /\ res_frag.g["Toffoli"] >= 5

(***************************************************************************)
(* SpecStep: the single-Trotter-step cost cells.                           *)
(*                                                                         *)
(* The cell that estimates the diagonalizing unitary adds T / 4 to a gate  *)
(* count, a float division.  From that cell on res_unitary, and from the   *)
(* cell that adds it on step_mode_res, hold their gate counts in quarters  *)
(* of a gate: the integer 4c stands for the float c.  Quarters are exact   *)
(* in binary floating point, so the sums and products are exact too.       *)
(***************************************************************************)
MaxFrags == 2      \* largest number of non-kinetic fragments of a scheme

RECURSIVE InsertDesc(_, _)
\* Insert r behind every entry whose Toffoli count is at least r's.
InsertDesc(s, r) ==
    IF Len(s) = 0 THEN <<r>>
    ELSE IF Toffoli(Head(s)) >= Toffoli(r) THEN <<Head(s)>> \o InsertDesc(Tail(s), r)
    ELSE <<r>> \o s

RECURSIVE SortedDesc(_)
\* sorted(res_list, key=Toffoli count, reverse=True): stable, so entries with
\* equal Toffoli counts keep their order in the list.
SortedDesc(s) ==
    IF Len(s) = 0 THEN <<>>
    ELSE InsertDesc(SortedDesc(SubSeq(s, 1, Len(s) - 1)), s[Len(s)])

\* sorted(...)[:2]
ExpensiveFrags(res_list) ==
    LET srt == SortedDesc(res_list) IN SubSeq(srt, 1, IF Len(srt) < 2 THEN Len(srt) ELSE 2)

\* res in res_expensive_frags: list membership compares with Resources.__eq__.
InList(r, s) == \E i \in 1..Len(s) : ResEq(r, s[i])

RECURSIVE StepLoop(_, _, _, _)
\* for res in res_list: if res not in res_expensive_frags: step += res * 2
StepLoop(step, res_list, i, expensive) ==
    IF i > Len(res_list) THEN step
    ELSE StepLoop(IF ~InList(res_list[i], expensive)
                    THEN ResAdd(step, ResMul(res_list[i], 2))
                    ELSE step,
                  res_list, i + 1, expensive)

\* The step-cost computation of both schemes.
StepCost(res_list) ==
    LET res_expensive_frags == ExpensiveFrags(res_list)
    IN  StepLoop(ResAdd(res_expensive_frags[1], res_expensive_frags[2]),
                 res_list, 1, res_expensive_frags)

\* The sequences over S of length lo..hi.
SeqsOf(S, lo, hi) == UNION {[1..n -> S] : n \in lo..hi}

\* An estimate of integer gate counts, held in quarters of a gate.
InQuarters(r) == ResMul(r, 4)

\* res_unitary.gate_types[Toffoli] += res_unitary.clean_gate_counts.get("T", 0)/4,
\* the result held in quarters: 4 * (Toffoli + T / 4) = 4 * Toffoli + T.
AddQuarterOfT(r) ==
    [qm |-> r.qm,
     g  |-> [x \in (DOMAIN r.g) \cup {"Toffoli"} |->
                IF x = "Toffoli" THEN 4 * Get(r.g, x) + Get(r.g, "T") ELSE 4 * r.g[x]]]

\* The state after the fragment lists are built; num_frags_mode =
\* len(fragments_mode), and res_list_mode holds the kinetic fragment and one
\* estimate for each of the other len(fragments_mode) - 1 fragments.
InitStep ==
    /\ pc = "step_OG" /\ raised = "none"
    /\ res_kinetic \in FragSet
    /\ \E fr \in SeqsOf(FragSet, 1, MaxFrags) : res_list_OG = <<res_kinetic>> \o fr
    /\ \E fr \in SeqsOf(FragSet, 1, MaxFrags) : res_list_mode = <<res_kinetic>> \o fr
    /\ num_frags_mode = <<Len(res_list_mode)>>
    /\ step_OG_res = Unset /\ step_mode_res = Unset /\ res_unitary = Unset /\ heap = Unset
    /\ res_Q = Unset /\ res_Qsquared = Unset /\ res_QrQs = Unset
    /\ IdleFrag /\ IdleCir /\ IdleNorm /\ IdleTot /\ IdleLog /\ IdleAlg /\ IdleQFT

\* Cell "Single Trotter Step Cost (OG)".
StepOGCell ==
    /\ pc = "step_OG"
    /\ step_OG_res' = StepCost(res_list_OG)
    /\ pc' = "step_mode"
    /\ UNCHANGED <<raised, res_list_OG, res_list_mode, step_mode_res, num_frags_mode, res_unitary, heap,
                   vUnit, vFrag, vCir, vNorm, vTot, steps_log, vAlg, vQFT>>

\* Second half of cell "Summing up Cost of Each Fragment" (mode based).
StepModeCell ==
    /\ pc = "step_mode"
    /\ step_mode_res' = StepCost(res_list_mode)
    /\ pc' = "unitary"
    /\ UNCHANGED <<raised, res_list_OG, res_list_mode, step_OG_res, num_frags_mode, res_unitary, heap,
                   vUnit, vFrag, vCir, vNorm, vTot, steps_log, vAlg, vQFT>>

\* Cell "Adding Cost of Unitaries": the estimate of digonalizing_circuit,
\* drawn, then a quarter of its T count added to its Toffoli count in place.
UnitaryCell ==
    /\ pc = "unitary"
    /\ \E estimate \in FragSet : res_unitary' = AddQuarterOfT(estimate)
    /\ pc' = "add_unitary"
    /\ UNCHANGED <<raised, res_list_OG, res_list_mode, step_OG_res, step_mode_res, num_frags_mode, heap,
                   vUnit, vFrag, vCir, vNorm, vTot, steps_log, vAlg, vQFT>>

\* Cell "Single Step Cost (Mode Based)": step_mode_res += res_unitary*num_frags_mode
AddUnitaryCell ==
    /\ pc = "add_unitary"
    /\ step_mode_res' = ResAdd(InQuarters(step_mode_res), ResMul(res_unitary, num_frags_mode[1]))
    /\ pc' = "done"
    /\ UNCHANGED <<raised, res_list_OG, res_list_mode, step_OG_res, num_frags_mode, res_unitary, heap,
                   vUnit, vFrag, vCir, vNorm, vTot, steps_log, vAlg, vQFT>>

NextStep == StepOGCell \/ StepModeCell \/ UnitaryCell \/ AddUnitaryCell
SpecStep == InitStep /\ [][NextStep]_vars

RECURSIVE SumToffoli(_)
SumToffoli(s) == IF Len(s) = 0 THEN 0 ELSE Toffoli(Head(s)) + SumToffoli(Tail(s))

\* The Toffoli counts of the two costliest entries, added.
TwoLargestToffoli(s) ==
    LET pairs == {ij \in (1..Len(s)) \X (1..Len(s)) : ij[1] # ij[2]}
        sumOf(ij) == Toffoli(s[ij[1]]) + Toffoli(s[ij[2]])
        best == CHOOSE ij \in pairs : \A other \in pairs : sumOf(other) <= sumOf(ij)
    IN  sumOf(best)

\* The two costliest fragments once, every other fragment twice.
ScheduledToffoli(s) == 2 * SumToffoli(s) - TwoLargestToffoli(s)

\* C1: the Toffoli count of the single-step cost is the two costliest
\* fragments once plus every other fragment of the list twice, for both
\* schemes, also when fragments have equal estimates.
C1_StepCostSchedule ==
    /\ (pc # "step_OG" => Toffoli(step_OG_res) = ScheduledToffoli(res_list_OG))
    /\ (pc \in {"unitary", "add_unitary"} => Toffoli(step_mode_res) = ScheduledToffoli(res_list_mode))

\* C13: the mode-based single-step cost is the scheduled fragment sum (the
\* two costliest once, the rest twice) plus num_frags_mode copies of the
\* unitary's cost, num_frags_mode being the number of mode-based fragments
\* and the unitary's Toffoli count having been increased once by a quarter
\* of its T count; the OG single-step cost has no unitary contribution.
\* (Counts of res_unitary and of the final step_mode_res are in quarters.)
C13_ModeStepWithUnitary ==
    pc = "done" =>
        /\ num_frags_mode[1] = Len(res_list_mode)
        /\ (res_unitary.g["Toffoli"] - res_unitary.g["T"] \div 4) % 4 = 0
        /\ Toffoli(step_mode_res)
              = 4 * ScheduledToffoli(res_list_mode) + num_frags_mode[1] * res_unitary.g["Toffoli"]
        /\ step_OG_res = StepCost(res_list_OG)

\* The entries of t are those of s in some order.
IsPermutation(s, t) ==
    /\ Len(s) = Len(t)
    /\ \A r \in {s[i] : i \in 1..Len(s)} \cup {t[i] : i \in 1..Len(t)} :
          Cardinality({i \in 1..Len(s) : s[i] = r}) = Cardinality({i \in 1..Len(t) : t[i] = r})

\* C14: the Toffoli count of the single-step cost does not depend on the
\* order of the fragment list: two lists with the same entries in
\* different orders get the same Toffoli total, also when fragments tie on
\* their Toffoli counts.
C14_OrderIndependent ==
    pc \in {"unitary", "add_unitary"} /\ IsPermutation(res_list_OG, res_list_mode) =>
        Toffoli(step_OG_res) = Toffoli(step_mode_res)

(***************************************************************************)
(* The number of Trotter steps.                                            *)
(*                                                                         *)
(* norm and req_error are floats; the model holds them as integers in a    *)
(* common unit (hundredths in the notebook slice, where req_error = 0.01), *)
(* which leaves norm / req_error as it is.  total_time is an integer.      *)
(***************************************************************************)
RECURSIVE UpperBound(_, _, _)
\* A power of two h with h * h * e >= x.
UpperBound(h, x, e) == IF h * h * e >= x THEN h ELSE UpperBound(2 * h, x, e)

RECURSIVE Bisect(_, _, _, _)
\* The least n in lo+1..hi with n * n * e >= x, given lo * lo * e < x <= hi * hi * e.
Bisect(lo, hi, x, e) ==
    IF hi - lo <= 1 THEN hi
    ELSE LET mid == (lo + hi) \div 2
         IN  IF mid * mid * e >= x THEN Bisect(lo, mid, x, e) ELSE Bisect(mid, hi, x, e)

\* math.ceil of the real number sqrt(x / e): the least n >= 0 with n * n * e >= x.
CeilSqrt(x, e) == IF x = 0 THEN 0 ELSE Bisect(0, UpperBound(1, x, e), x, e)

\* t is the square of an integer, so that t ** 1.5 is an integer.
IsSquare(t) == \E r \in 0..t : r * r = t

\* num_steps with norm * req_error in place of norm / req_error.
num_steps_Product(norm, err, t) == {CeilSqrt(t * t * t * norm * err, 1)}

\* math.ceil(total_time**1.5 * (norm / req_error)**0.5), the values the
\* floating-point evaluation can return.  The real value of the product is
\* sqrt(total_time^3 * norm / req_error).  When it is an integer s while
\* total_time ** 1.5 is irrational, both factors are rounded, the rounded
\* product can lie just above s, and math.ceil then returns s + 1
\* (math.ceil(2**1.5 * (2.0/1.0)**0.5) is 5); which of the two it is depends
\* on the rounding of the platform's pow.
num_steps(norm, err, t) ==
    LET x == t * t * t * norm
        s == CeilSqrt(x, err)
    IN  IF s > 0 /\ s * s * err = x /\ ~IsSquare(t) THEN {s, s + 1} ELSE {s}

\* The results a call can return on a platform that has already returned
\* the results of log: the function is pure, a repeated call repeats.
NumStepsOn(log, norm, err, t) ==
    LET same == {c \in log : c.norm = norm /\ c.req_error = err /\ c.total_time = t}
    IN  IF same # {} THEN {c.n : c \in same} ELSE num_steps(norm, err, t)

Call(norm, err, t, n) == [norm |-> norm, req_error |-> err, total_time |-> t, n |-> n]

(***************************************************************************)
(* Spec: the notebook from the loading of the norms to the total costs.    *)
(***************************************************************************)
total_time == 152   \* total_time = 152
req_error  == 1     \* req_error = 0.01, in hundredths
MaxNorm    == 2     \* largest norm read from the CSV file, in hundredths
MaxModes   == 2     \* largest number of modes M in this slice

NormSet == {None} \cup {<<v>> : v \in 1..MaxNorm}

\* TotalCost with the initial cost multiplied by the step count as well.
TotalCost_InitialRepeated(initial, step_res, nsteps) == ResMul(ResAdd(initial, step_res), nsteps)

\* res_initial + step_res * nsteps
TotalCost(initial, step_res, nsteps) == ResAdd(initial, ResMul(step_res, nsteps))

Init ==
    /\ pc = "norm" /\ raised = "none"
    /\ M \in 1..MaxModes /\ N = Unset /\ k = Unset /\ b = Unset /\ mode_wires = Unset
    /\ step_OG_res \in FragSet /\ step_mode_res \in FragSet
    /\ res_list_OG = Unset /\ res_list_mode = Unset
    /\ num_frags_mode = Unset /\ res_unitary = Unset /\ heap = Unset
    /\ IdleNorm /\ IdleTot /\ IdleLog
    /\ IdleUnit /\ IdleFrag /\ IdleAlg /\ IdleQFT

\* norm_OG = get_norm_value(..., 'OG'); norm_mode = get_norm_value(..., 'mode'):
\* the entry of the CSV file, or None when the file has none.
NormCell ==
    /\ pc = "norm"
    /\ norm_OG' \in NormSet
    /\ norm_mode' \in NormSet
    /\ pc' = "nsteps"
    /\ UNCHANGED <<raised, nsteps_OG, nsteps_mode, vTot, vCir, vUnit, vFrag, vStep, steps_log, vAlg, vQFT>>

\* The cell that defines num_steps and computes nsteps_OG and nsteps_mode.
\* Both if statements test norm_OG; num_steps(None, ...) raises TypeError
\* at norm / req_error and the run stops there.
NStepsCell ==
    /\ pc = "nsteps"
    /\ IF norm_OG = None
         THEN /\ pc' = "initial"
              /\ UNCHANGED <<raised, nsteps_OG, nsteps_mode, steps_log>>
         ELSE \E n1 \in NumStepsOn(steps_log, norm_OG[1], req_error, total_time) :
                LET log1 == steps_log \cup {Call(norm_OG[1], req_error, total_time, n1)} IN
                /\ nsteps_OG' = <<n1>>
                /\ IF norm_mode = None
                     THEN /\ raised' = "TypeError"
                          /\ pc' = "stopped"
                          /\ steps_log' = log1
                          /\ UNCHANGED nsteps_mode
                     ELSE \E n2 \in NumStepsOn(log1, norm_mode[1], req_error, total_time) :
                            /\ nsteps_mode' = <<n2>>
                            /\ steps_log' = log1 \cup {Call(norm_mode[1], req_error, total_time, n2)}
                            /\ pc' = "initial"
                            /\ UNCHANGED raised
    /\ UNCHANGED <<norm_OG, norm_mode, vTot, vCir, vUnit, vFrag, vStep, vAlg, vQFT>>

\* res_initial = estimate_resources(phasegrad_circ, ...)(b, phase_grad_wires)
PhaseGradCell ==
    /\ pc = "initial"
    /\ res_initial' \in FragSet
    /\ pc' = "stateprep"
    /\ UNCHANGED <<raised, res_total_OG, res_total_mode, vNorm, vCir, vUnit, vFrag, vStep, steps_log, vAlg, vQFT>>

\* res_initial += M * estimate_resources(stateprep_circ)(k, mode_wires)
StatePrepCell ==
    /\ pc = "stateprep"
    /\ \E sp \in {r \in ResSet : r.qm.algo = 1 /\ r.g["T"] = MaxT} :
          res_initial' = ResAdd(res_initial, ResMul(sp, M))
    /\ pc' = "total_OG"
    /\ UNCHANGED <<raised, res_total_OG, res_total_mode, vNorm, vCir, vUnit, vFrag, vStep, steps_log, vAlg, vQFT>>

\* if norm_OG is not None: res_total_OG = res_initial + step_OG_res*nsteps_OG
TotalOGCell ==
    /\ pc = "total_OG"
    /\ IF norm_OG # None
         THEN res_total_OG' = TotalCost(res_initial, step_OG_res, nsteps_OG[1])
         ELSE UNCHANGED res_total_OG
    /\ pc' = "total_mode"
    /\ UNCHANGED <<raised, res_initial, res_total_mode, vNorm, vCir, vUnit, vFrag, vStep, steps_log, vAlg, vQFT>>

\* if norm_OG is not None: res_total_mode = res_initial + step_mode_res*nsteps_mode
TotalModeCell ==
    /\ pc = "total_mode"
    /\ IF norm_OG # None
         THEN res_total_mode' = TotalCost(res_initial, step_mode_res, nsteps_mode[1])
         ELSE UNCHANGED res_total_mode
    /\ pc' = "done"
    /\ UNCHANGED <<raised, res_initial, res_total_OG, vNorm, vCir, vUnit, vFrag, vStep, steps_log, vAlg, vQFT>>

Next == NormCell \/ NStepsCell \/ PhaseGradCell \/ StatePrepCell \/ TotalOGCell \/ TotalModeCell
Spec == Init /\ [][Next]_vars

\* The nsteps cell has been run (to its end or to an exception).
AfterNSteps == pc \in {"initial", "stateprep", "total_OG", "total_mode", "done", "stopped"}

\* C2: num_steps is never called with a None norm, and the step count and
\* the total cost of a scheme are computed exactly when the scheme's own
\* norm is not None.
C2_NoneCheck ==
    /\ raised # "TypeError"
    /\ (AfterNSteps => /\ (nsteps_OG # Unset <=> norm_OG # None)
                       /\ (nsteps_mode # Unset <=> norm_mode # None))
    /\ (pc = "done" => /\ (res_total_OG # Unset <=> norm_OG # None)
                       /\ (res_total_mode # Unset <=> norm_mode # None))

\* C8: for every gate type the total cost of a scheme is the count of the
\* initial state preparation plus the number of Trotter steps times the
\* count of the single-step cost.
C8_TotalCost ==
    /\ (pc \in {"total_mode", "done"} /\ res_total_OG # Unset =>
          \A x \in Gates :
             res_total_OG.g[x] = res_initial.g[x] + nsteps_OG[1] * step_OG_res.g[x])
    /\ (pc = "done" /\ res_total_mode # Unset =>
          \A x \in Gates :
             res_total_mode.g[x] = res_initial.g[x] + nsteps_mode[1] * step_mode_res.g[x])

\* Both totals computed, from different step costs and step counts, on top
\* of an initial cost that is not zero.
C8_Witness ==
    /\ pc = "done" /\ res_total_OG # Unset /\ res_total_mode # Unset
    /\ nsteps_OG # nsteps_mode
    /\ step_OG_res.g["Toffoli"] = 1 /\ step_mode_res.g["Toffoli"] = 2
    /\ res_initial.g["Toffoli"] > 0 /\ res_initial.g["T"] > 0
    /\ res_total_OG.g["Toffoli"] > res_initial.g["Toffoli"]

(***************************************************************************)
(* SpecSteps: num_steps called on drawn arguments.                         *)
(***************************************************************************)
MaxArgNorm == 4    \* largest norm passed to num_steps
MaxArgErr  == 4    \* largest req_error passed to num_steps
MaxArgTime == 2    \* largest total_time passed to num_steps
MaxCalls   == 2    \* number of different calls of num_steps in a run

InitSteps ==
    /\ pc = "steps" /\ raised = "none"
    /\ steps_log = {}
    /\ IdleCir /\ IdleUnit /\ IdleFrag /\ IdleStep /\ IdleNorm /\ IdleTot /\ IdleAlg /\ IdleQFT

\* One more call num_steps(norm, req_error, total_time).
NumStepsCall ==
    /\ pc = "steps"
    /\ Cardinality(steps_log) < MaxCalls
    /\ \E norm \in 0..MaxArgNorm, err \in 1..MaxArgErr, t \in 0..MaxArgTime :
          \E n \in NumStepsOn(steps_log, norm, err, t) :
             steps_log' = steps_log \cup {Call(norm, err, t, n)}
    /\ UNCHANGED <<pc, raised, vCir, vUnit, vFrag, vStep, vNorm, vTot, vAlg, vQFT>>

NextSteps == NumStepsCall
SpecSteps == InitSteps /\ [][NextSteps]_vars

\* C5: the result of num_steps is the smallest integer n with
\* n^2 * req_error >= total_time^3 * norm.
C5_SmallestN ==
    \A c \in steps_log :
        /\ c.n * c.n * c.req_error >= c.total_time * c.total_time * c.total_time * c.norm
        /\ (c.n > 0 =>
              (c.n - 1) * (c.n - 1) * c.req_error < c.total_time * c.total_time * c.total_time * c.norm)

MaxWires == 64     \* largest num_wires passed to AQFT_resource_decomp

RECURSIVE CeilLog2(_)
\* math.ceil(math.log2(n)) for an integer n >= 1.
CeilLog2(n) == IF n <= 1 THEN 0 ELSE 1 + CeilLog2((n + 1) \div 2)

RECURSIVE FloorLog2(_)
FloorLog2(n) == IF n <= 1 THEN 0 ELSE 1 + FloorLog2(n \div 2)

\* AQFT_resource_decomp with math.floor in place of math.ceil.
AQFT_resource_decomp_Floor(nw) ==
    LET ceil_log_n == FloorLog2(nw)
        aux_qubit_count == nw + 3 * ceil_log_n - 4
        toff_count == 2 * nw * (ceil_log_n - 1)
    IN  << [op |-> "AllocWires", n |-> aux_qubit_count],
           [op |-> "GateCount", gate |-> "Toffoli", n |-> toff_count],
           [op |-> "FreeWires", n |-> aux_qubit_count] >>

\* The gate list AQFT_resource_decomp returns.
AQFT_resource_decomp(nw) ==
    LET ceil_log_n == CeilLog2(nw)
        aux_qubit_count == nw + 3 * ceil_log_n - 4
        toff_count == 2 * nw * (ceil_log_n - 1)
    IN  << [op |-> "AllocWires", n |-> aux_qubit_count],
           [op |-> "GateCount", gate |-> "Toffoli", n |-> toff_count],
           [op |-> "FreeWires", n |-> aux_qubit_count] >>

InitQFT ==
    /\ pc = "qft" /\ raised = "none"
    /\ num_wires \in 0..MaxWires
    /\ gate_list = Unset
    /\ IdleCir /\ IdleUnit /\ IdleFrag /\ IdleStep /\ IdleNorm /\ IdleTot /\ IdleLog /\ IdleAlg

\* A call AQFT_resource_decomp(num_wires); math.log2(0) raises ValueError.
AQFTCall ==
    /\ pc = "qft"
    /\ IF num_wires = 0
         THEN raised' = "ValueError" /\ UNCHANGED gate_list
         ELSE gate_list' = AQFT_resource_decomp(num_wires) /\ UNCHANGED raised
    /\ pc' = "done"
    /\ UNCHANGED <<num_wires, vCir, vUnit, vFrag, vStep, vNorm, vTot, steps_log, vAlg>>

NextQFT == AQFTCall
SpecQFT == InitQFT /\ [][NextQFT]_vars

RECURSIVE Pow2(_)
Pow2(e) == IF e = 0 THEN 1 ELSE 2 * Pow2(e - 1)

\* The least l with 2^l >= n.
LeastLog(n) == CHOOSE l \in 0..n : Pow2(l) >= n /\ (l = 0 \/ Pow2(l - 1) < n)

\* C7: the override returns a Toffoli count of 2*n*(ceil(log2 n) - 1),
\* allocates n + 3*ceil(log2 n) - 4 auxiliary qubits, frees as many as it
\* allocated and emits no other gate type.
C7_AQFTFormula ==
    pc = "done" /\ raised = "none" =>
        LET counts == {i \in 1..Len(gate_list) : gate_list[i].op = "GateCount"}
            allocs == {i \in 1..Len(gate_list) : gate_list[i].op = "AllocWires"}
            frees  == {i \in 1..Len(gate_list) : gate_list[i].op = "FreeWires"}
        IN  /\ Cardinality(counts) = 1 /\ Cardinality(allocs) = 1 /\ Cardinality(frees) = 1
            /\ Len(gate_list) = 3
            /\ \A i \in counts :
                  /\ gate_list[i].gate = "Toffoli"
                  /\ gate_list[i].n = 2 * num_wires * (LeastLog(num_wires) - 1)
            /\ \A i \in allocs : gate_list[i].n = num_wires + 3 * LeastLog(num_wires) - 4
            /\ \A i \in allocs, j \in frees : gate_list[i].n = gate_list[j].n

\* The override has returned for a number of wires that is not a power of two.
C7_Witness ==
    /\ pc = "done" /\ raised = "none"
    /\ num_wires = 5
    /\ gate_list[2].n = 20 /\ gate_list[1].n = 10

\* C15: for every num_wires >= 1 the Toffoli count and the auxiliary-qubit
\* count that AQFT_resource_decomp returns are non-negative integers.
C15_AQFTNonNegative ==
    pc = "done" /\ raised = "none" /\ num_wires >= 1 =>
        \A i \in 1..Len(gate_list) : gate_list[i].n \in Nat

(***************************************************************************)
(* SpecCir: the circuit templates and their estimates.                     *)
(*                                                                         *)
(* A template is the sequence of the operations it queues.  An operation   *)
(* is [toff |-> Toffoli count, aux |-> auxiliary qubits it allocates and   *)
(* frees, wires |-> the wires it acts on].  A wire label such as "pg_3"    *)
(* is the pair <<"pg", 3>>.                                                *)
(***************************************************************************)
MaxStates   == 8    \* largest number N of electronic states
MaxModesCir == 20   \* largest number M of vibrational modes

\* N and M of model_params/no4a_monomer.pkl.  The file is not part of the
\* sources; the values are those the recorded outputs fix (Toffoli count
\* 146 of Q_cir, 5358 of kinetic_cir, 684 of res_initial).
N_no4a_monomer == 5
M_no4a_monomer == 19

Op(toff, aux, wires) == [toff |-> toff, aux |-> aux, wires |-> wires]

\* list[lo:hi]
Slice(lst, lo, hi) ==
    LET h == IF hi > Len(lst) THEN Len(lst) ELSE hi
    IN  IF lo >= h THEN <<>> ELSE SubSeq(lst, lo + 1, h)

\* [f"{name}_{i}" for i in range(n)]
Wires(name, n) == [i \in 1..n |-> <<name, i - 1>>]

\* The operations of a loop: for i in range(n): body(i)
ForRange(n, body(_)) == [i \in 1..n |-> body(i - 1)]

RECURSIVE Flatten(_)
Flatten(ss) == IF Len(ss) = 0 THEN <<>> ELSE Head(ss) \o Flatten(Tail(ss))

\* ResourceQROM(num_bitstrings, size_bitstring, clean=False) at select-swap
\* width 1 (the width the library chooses while num_bitstrings is small
\* against size_bitstring): num_bitstrings - 2 temporary ANDs, each one
\* Toffoli, on ceil(log2(num_bitstrings)) - 1 work wires.
ResourceQROM(num_bitstrings, size_bitstring, wires) ==
    Op(num_bitstrings - 2, CeilLog2(num_bitstrings) - 1, wires)

\* ResourceControlled(ResourceSemiAdder(max_register_size), num_ctrl_wires=1,
\* num_ctrl_values=0): 2 * (max_register_size - 1) temporary ANDs on
\* max_register_size - 1 work wires.
ResourceControlledSemiAdder(max_register_size, wires) ==
    Op(2 * (max_register_size - 1), max_register_size - 1, wires)

\* ResourceOutOfPlaceSquare(register_size): (register_size - 1)^2 Toffolis.
ResourceOutOfPlaceSquare(register_size, wires) ==
    Op((register_size - 1) * (register_size - 1), 0, wires)

\* ResourceOutMultiplier(a_num_qubits, b_num_qubits): 2ab - max(a, b) Toffolis.
ResourceOutMultiplier(a_num_qubits, b_num_qubits, wires) ==
    Op(2 * a_num_qubits * b_num_qubits - Max(a_num_qubits, b_num_qubits), 0, wires)

\* ResourceQFT(num_wires) under ResourceQFT.set_resources(AQFT_resource_decomp).
ResourceQFT(nw, wires) ==
    LET gl == AQFT_resource_decomp(nw) IN Op(gl[2].n, gl[1].n, wires)

\* ResourceAdjoint(op): the adjoint of every gate of the decomposition; the
\* adjoint of a Toffoli is a Toffoli, and the adjoint of a compute /
\* uncompute pair of temporary ANDs is such a pair again.
ResourceAdjoint(op) == op

\* ResourceIdentity(wires): no gates.
ResourceIdentity(wires) == Op(0, 0, wires)

RECURSIVE SumToff(_, _, _)
\* The Toffoli counts of ops[lo..hi], added.
SumToff(ops, lo, hi) ==
    IF lo > hi THEN 0
    ELSE IF lo = hi THEN ops[lo].toff
    ELSE LET mid == (lo + hi) \div 2 IN SumToff(ops, lo, mid) + SumToff(ops, mid + 1, hi)

RECURSIVE MaxAux(_, _, _)
\* The largest number of auxiliary qubits an operation of ops[lo..hi] holds.
MaxAux(ops, lo, hi) ==
    IF lo > hi THEN 0
    ELSE IF lo = hi THEN ops[lo].aux
    ELSE LET mid == (lo + hi) \div 2 IN Max(MaxAux(ops, lo, mid), MaxAux(ops, mid + 1, hi))

\* estimate_resources(circuit, gate_set=my_gs)(...): the Toffoli counts of
\* the operations add; the algorithmic qubits are the distinct wires; the
\* clean qubits are the most auxiliary qubits allocated at one time.
estimate_resources(ops) ==
    [qm |-> [clean |-> MaxAux(ops, 1, Len(ops)),
             algo  |-> Cardinality(UNION {{op.wires[i] : i \in 1..Len(op.wires)} :
                                            op \in {ops[j] : j \in 1..Len(ops)}})],
     g  |-> [x \in {"Toffoli"} |-> SumToff(ops, 1, Len(ops))]]

\* Q_cir with the loop of Qsquared_cir (2k adders controlled on scratch wires).
Q_cir_LoopTwoK(b_, N_, k_, phase_grad_wires_, electronic_wires_, coeff_wires_, total_mode_wires_, mode_wires_, scratch_wires_) ==
    LET adder(i) ==
            LET ctrl_wire == <<(<<"s", i>>)>>
                target_wires == Slice(coeff_wires_, 0, b_ - i) \o Slice(phase_grad_wires_, 0, b_ - i)
            IN  ResourceControlledSemiAdder(b_ - i, target_wires \o ctrl_wire)
    IN  <<ResourceQROM(N_, b_, electronic_wires_ \o coeff_wires_)>>
        \o ForRange(2 * k_, adder)
        \o <<ResourceAdjoint(ResourceQROM(N_, b_, electronic_wires_ \o coeff_wires_))>>
        \o <<ResourceIdentity(scratch_wires_ \o Slice(total_mode_wires_, k_, Len(total_mode_wires_)))>>

Q_cir(b_, N_, k_, phase_grad_wires_, electronic_wires_, coeff_wires_, total_mode_wires_, mode_wires_, scratch_wires_) ==
    LET adder(i) ==
            LET ctrl_wire == <<mode_wires_[i + 1]>>
                target_wires == Slice(coeff_wires_, 0, b_ - i) \o Slice(phase_grad_wires_, 0, b_ - i)
            IN  ResourceControlledSemiAdder(b_ - i, target_wires \o ctrl_wire)
    IN  <<ResourceQROM(N_, b_, electronic_wires_ \o coeff_wires_)>>
        \o ForRange(k_, adder)
        \o <<ResourceAdjoint(ResourceQROM(N_, b_, electronic_wires_ \o coeff_wires_))>>
        \o <<ResourceIdentity(scratch_wires_ \o Slice(total_mode_wires_, k_, Len(total_mode_wires_)))>>

Qsquared_cir(b_, N_, k_, phase_grad_wires_, electronic_wires_, coeff_wires_, total_mode_wires_, mode_wires_, scratch_wires_) ==
    LET adder(i) ==
            LET ctrl_wire == <<(<<"s", i>>)>>
                target_wires == Slice(coeff_wires_, 0, b_ - i) \o Slice(phase_grad_wires_, 0, b_ - i)
            IN  ResourceControlledSemiAdder(b_ - i, target_wires \o ctrl_wire)
    IN  <<ResourceQROM(N_, b_, electronic_wires_ \o coeff_wires_)>>
        \o <<ResourceOutOfPlaceSquare(k_, scratch_wires_ \o mode_wires_)>>
        \o ForRange(2 * k_, adder)
        \o <<ResourceAdjoint(ResourceOutOfPlaceSquare(k_, scratch_wires_ \o mode_wires_))>>
        \o <<ResourceAdjoint(ResourceQROM(N_, b_, electronic_wires_ \o coeff_wires_))>>
        \o <<ResourceIdentity(Slice(total_mode_wires_, k_, Len(total_mode_wires_)))>>

QrQs_cir(b_, N_, k_, phase_grad_wires_, electronic_wires_, coeff_wires_, total_mode_wires_, mode_wires_, mode2_wires_, scratch_wires_) ==
    LET adder(i) ==
            LET ctrl_wire == <<(<<"s", i>>)>>
                target_wires == Slice(coeff_wires_, 0, b_ - i) \o Slice(phase_grad_wires_, 0, b_ - i)
            IN  ResourceControlledSemiAdder(b_ - i, target_wires \o ctrl_wire)
    IN  <<ResourceQROM(N_, b_, electronic_wires_ \o coeff_wires_)>>
        \o <<ResourceOutMultiplier(k_, k_, scratch_wires_ \o mode_wires_ \o mode2_wires_)>>
        \o ForRange(2 * k_, adder)
        \o <<ResourceAdjoint(ResourceOutMultiplier(k_, k_, scratch_wires_ \o mode_wires_ \o mode2_wires_))>>
        \o <<ResourceAdjoint(ResourceQROM(N_, b_, electronic_wires_ \o coeff_wires_))>>
        \o <<ResourceIdentity(Slice(total_mode_wires_, 2 * k_, Len(total_mode_wires_)))>>

\* kinetic_cir with the inverse QFT applied to the first mode only.
kinetic_cir_OneInverseQFT(b_, M_, k_, phase_grad_wires_, electronic_wires_, coeff_wires_, total_mode_wires_, mode_wires_, scratch_wires_) ==
    LET qft(i) == ResourceQFT(k_, Slice(total_mode_wires_, i * k_, k_ * (i + 1)))
        adder(j) ==
            LET ctrl_wire == <<(<<"s", j>>)>>
                target_wires == Slice(coeff_wires_, 0, b_ - j) \o Slice(phase_grad_wires_, 0, b_ - j)
            IN  ResourceControlledSemiAdder(b_ - j, target_wires \o ctrl_wire)
        mode(i) ==
            LET mode_wires_i == Slice(total_mode_wires_, i * k_, k_ * (i + 1))
            IN  <<ResourceOutOfPlaceSquare(k_, mode_wires_i \o scratch_wires_)>>
                \o ForRange(2 * k_, adder)
                \o <<ResourceAdjoint(ResourceOutOfPlaceSquare(k_, mode_wires_i \o scratch_wires_))>>
        adjqft(i) == ResourceAdjoint(ResourceQFT(k_, Slice(total_mode_wires_, i * k_, k_ * (i + 1))))
    IN  ForRange(M_, qft)
        \o Flatten(ForRange(M_, mode))
        \o ForRange(1, adjqft)
        \o <<ResourceIdentity(electronic_wires_)>>

\* The parameter mode_wires_ is reassigned in the second loop before it is read.
kinetic_cir(b_, M_, k_, phase_grad_wires_, electronic_wires_, coeff_wires_, total_mode_wires_, mode_wires_, scratch_wires_) ==
    LET qft(i) == ResourceQFT(k_, Slice(total_mode_wires_, i * k_, k_ * (i + 1)))
        adder(j) ==
            LET ctrl_wire == <<(<<"s", j>>)>>
                target_wires == Slice(coeff_wires_, 0, b_ - j) \o Slice(phase_grad_wires_, 0, b_ - j)
            IN  ResourceControlledSemiAdder(b_ - j, target_wires \o ctrl_wire)
        mode(i) ==
            LET mode_wires_i == Slice(total_mode_wires_, i * k_, k_ * (i + 1))
            IN  <<ResourceOutOfPlaceSquare(k_, mode_wires_i \o scratch_wires_)>>
                \o ForRange(2 * k_, adder)
                \o <<ResourceAdjoint(ResourceOutOfPlaceSquare(k_, mode_wires_i \o scratch_wires_))>>
        adjqft(i) == ResourceAdjoint(ResourceQFT(k_, Slice(total_mode_wires_, i * k_, k_ * (i + 1))))
    IN  ForRange(M_, qft)
        \o Flatten(ForRange(M_, mode))
        \o ForRange(M_, adjqft)
        \o <<ResourceIdentity(electronic_wires_)>>

\* The cell "Naming the wires used in the circuits".
log_N == CeilLog2(N)
phase_grad_wires == Wires("pg", b)
electronic_wires == Wires("e", log_N)
coeff_wires      == Wires("c", b)
total_mode_wires == Wires("m", k * M)
scratch_wires    == Wires("s", 2 * k)
mode2_wires      == Slice(total_mode_wires, k, 2 * k)

\* The notebook-global mode_wires after a call of kinetic_cir, had its
\* assignment to mode_wires written to the global name.
global_mode_wires_after_kinetic_cir_Written(mode_wires_before, M_, k_, total_mode_wires_) ==
    IF M_ = 0 THEN mode_wires_before
    ELSE Slice(total_mode_wires_, (M_ - 1) * k_, k_ * M_)

\* The notebook-global mode_wires after a call of kinetic_cir: mode_wires is
\* a parameter of kinetic_cir, so the assignment in its second loop binds the
\* name local to the call and the global keeps its value.
global_mode_wires_after_kinetic_cir(mode_wires_before, M_, k_, total_mode_wires_) ==
    mode_wires_before

\* The state after the Hamiltonian is loaded: k = 4, b = 20 and
\* N, M = alphas.shape[0], alphas.shape[2].
InitCir ==
    /\ pc = "wires" /\ raised = "none"
    /\ k = 4 /\ b = 20
    /\ N \in 2..MaxStates /\ M \in 2..MaxModesCir
    /\ mode_wires = Unset
    /\ IdleUnit
    /\ IdleFrag /\ IdleStep /\ IdleNorm /\ IdleTot /\ IdleLog /\ IdleAlg /\ IdleQFT

\* The cell "Naming the wires used in the circuits": mode_wires = total_mode_wires[:k].
NameWiresCell ==
    /\ pc = "wires"
    /\ mode_wires' = Slice(total_mode_wires, 0, k)
    /\ pc' = "est_Q"
    /\ UNCHANGED <<raised, N, M, k, b, vUnit, vFrag, vStep, vNorm, vTot, steps_log, vAlg, vQFT>>

EstimateQCell ==
    /\ pc = "est_Q"
    /\ res_Q' = estimate_resources(Q_cir(b, N, k, phase_grad_wires, electronic_wires, coeff_wires,
                                         total_mode_wires, mode_wires, scratch_wires))
    /\ pc' = "est_Qsquared"
    /\ UNCHANGED <<raised, res_Qsquared, res_QrQs, res_kinetic, vCir, vFrag, vStep, vNorm, vTot, steps_log, vAlg, vQFT>>

EstimateQsquaredCell ==
    /\ pc = "est_Qsquared"
    /\ res_Qsquared' = estimate_resources(Qsquared_cir(b, N, k, phase_grad_wires, electronic_wires, coeff_wires,
                                                       total_mode_wires, mode_wires, scratch_wires))
    /\ pc' = "est_QrQs"
    /\ UNCHANGED <<raised, res_Q, res_QrQs, res_kinetic, vCir, vFrag, vStep, vNorm, vTot, steps_log, vAlg, vQFT>>

EstimateQrQsCell ==
    /\ pc = "est_QrQs"
    /\ res_QrQs' = estimate_resources(QrQs_cir(b, N, k, phase_grad_wires, electronic_wires, coeff_wires,
                                               total_mode_wires, mode_wires, mode2_wires, scratch_wires))
    /\ pc' = "est_kinetic"
    /\ UNCHANGED <<raised, res_Q, res_Qsquared, res_kinetic, vCir, vFrag, vStep, vNorm, vTot, steps_log, vAlg, vQFT>>

EstimateKineticCell ==
    /\ pc = "est_kinetic"
    /\ res_kinetic' = estimate_resources(kinetic_cir(b, M, k, phase_grad_wires, electronic_wires, coeff_wires,
                                                     total_mode_wires, mode_wires, scratch_wires))
    /\ mode_wires' = global_mode_wires_after_kinetic_cir(mode_wires, M, k, total_mode_wires)
    /\ pc' = "done"
    /\ UNCHANGED <<raised, res_Q, res_Qsquared, res_QrQs, N, M, k, b, vFrag, vStep, vNorm, vTot, steps_log, vAlg, vQFT>>

NextCir == NameWiresCell \/ EstimateQCell \/ EstimateQsquaredCell \/ EstimateQrQsCell \/ EstimateKineticCell
SpecCir == InitCir /\ [][NextCir]_vars

RECURSIVE SumAdders(_, _)
\* The Toffoli count of n controlled semi-adders of sizes first, first - 1, ...
SumAdders(first, n) == IF n = 0 THEN 0 ELSE 2 * (first - 1) + SumAdders(first - 1, n - 1)

\* C9: for no4a_monomer (k = 4, b = 20) the Toffoli counts of the linear,
\* quadratic and bilinear circuits are 146, 272 and 310, each the sum of
\* the QROM and its adjoint, the k or 2k controlled semi-adders of sizes
\* b, b-1, ..., and the square or the multiplier with its adjoint.
C9_TermCircuitToffoli ==
    /\ (pc \in {"est_Qsquared", "est_QrQs", "est_kinetic", "done"} =>
          /\ Toffoli(res_Q) = 2 * (N - 2) + SumAdders(b, k)
          /\ (N = N_no4a_monomer => Toffoli(res_Q) = 146))
    /\ (pc \in {"est_QrQs", "est_kinetic", "done"} =>
          /\ Toffoli(res_Qsquared) = 2 * (N - 2) + SumAdders(b, 2 * k) + 2 * (k - 1) * (k - 1)
          /\ (N = N_no4a_monomer => Toffoli(res_Qsquared) = 272))
    /\ (pc \in {"est_kinetic", "done"} =>
          /\ Toffoli(res_QrQs) = 2 * (N - 2) + SumAdders(b, 2 * k) + 2 * (2 * k * k - k)
          /\ (N = N_no4a_monomer => Toffoli(res_QrQs) = 310))

C9_Witness ==
    /\ pc = "done" /\ N = N_no4a_monomer /\ M = M_no4a_monomer
    /\ Toffoli(res_Q) = 146 /\ Toffoli(res_Qsquared) = 272 /\ Toffoli(res_QrQs) = 310

\* C10: for no4a_monomer the kinetic fragment has qubit count 146 and
\* Toffoli count 5358, the Toffoli count being M times the cost of one
\* mode: a QFT and an inverse QFT on k wires, a square and its adjoint and
\* 2k controlled semi-adders of sizes b, ..., b-2k+1.
C10_KineticCost ==
    pc = "done" =>
        /\ Toffoli(res_kinetic)
              = M * (2 * (2 * k * (LeastLog(k) - 1)) + 2 * (k - 1) * (k - 1) + SumAdders(b, 2 * k))
        /\ (N = N_no4a_monomer /\ M = M_no4a_monomer =>
              /\ TotalQubits(res_kinetic) = 146
              /\ Toffoli(res_kinetic) = 5358)

\* The kinetic fragment has been estimated for no4a_monomer.
C10_Witness ==
    /\ pc = "done" /\ N = N_no4a_monomer /\ M = M_no4a_monomer
    /\ Toffoli(res_kinetic) = 5358 /\ res_kinetic.qm.algo = 127 /\ res_kinetic.qm.clean = 19

(***************************************************************************)
(* SpecObj: the cells from the fragment lists to the total costs, run over *)
(* Resources objects.                                                      *)
(*                                                                         *)
(* In this slice a notebook name holds a reference <<i>> to the object     *)
(* heap[i], so that two names, or a name and a list entry, can hold the    *)
(* same object (res_kinetic is entry 0 of both fragment lists), and an     *)
(* operation either makes a new object or writes into an existing one.     *)
(* All gate counts of the slice are held in quarters of a gate.            *)
(***************************************************************************)
MaxObjSteps == 2   \* the number of Trotter steps given to the total cost cells

\* The term counts count_nonzero_Q_terms returns for the drawn fragments.
TermCounts == {<<1, 0, 0>>, <<0, 1, 1>>}

\* The unit costs drawn: estimates of circuits that hold Toffoli gates only.
ObjUnitSet == {InQuarters(r) : r \in {u \in FragSet : u.g["Toffoli"] >= 1 /\ u.g["T"] = 0}}

Deref(h, ref) == h[ref[1]]

\* A new object of value r.
HeapNew(h, r) == [heap |-> Append(h, r), ref |-> <<Len(h) + 1>>]

\* HeapAdd with the sum written into the left operand.
HeapAdd_InPlace(h, r1, r2) ==
    [heap |-> [h EXCEPT ![r1[1]] = ResAdd(Deref(h, r1), Deref(h, r2))], ref |-> r1]

\* r1 + r2, and r1 += r2 (Resources has no __iadd__): a new object.
HeapAdd(h, r1, r2) == HeapNew(h, ResAdd(Deref(h, r1), Deref(h, r2)))

\* r * scalar and scalar * r: a new object.
HeapMul(h, r, scalar) == HeapNew(h, ResMul(Deref(h, r), scalar))

\* res_frag = num_Qr * res_Q + num_Qr2 * res_Qsquared + num_QrQs * res_QrQs
ObjFragCost(h, counts, rQ, rQsquared, rQrQs) ==
    LET p1 == HeapMul(h, rQ, counts[1])
        p2 == HeapMul(p1.heap, rQsquared, counts[2])
        s1 == HeapAdd(p2.heap, p1.ref, p2.ref)
        p3 == HeapMul(s1.heap, rQrQs, counts[3])
    IN  HeapAdd(p3.heap, s1.ref, p3.ref)

RECURSIVE ObjBuildList(_, _, _, _, _, _, _)
\* for i in range(len(fragments)-1): ...; res_list.append(res_frag)
ObjBuildList(h, res_list, frag_counts, i, rQ, rQsquared, rQrQs) ==
    IF i > Len(frag_counts) THEN [heap |-> h, list |-> res_list]
    ELSE LET f == ObjFragCost(h, frag_counts[i], rQ, rQsquared, rQrQs)
         IN  ObjBuildList(f.heap, Append(res_list, f.ref), frag_counts, i + 1, rQ, rQsquared, rQrQs)

RECURSIVE ObjInsertDesc(_, _, _)
ObjInsertDesc(h, s, r) ==
    IF Len(s) = 0 THEN <<r>>
    ELSE IF Toffoli(Deref(h, Head(s))) >= Toffoli(Deref(h, r))
           THEN <<Head(s)>> \o ObjInsertDesc(h, Tail(s), r)
    ELSE <<r>> \o s

RECURSIVE ObjSortedDesc(_, _)
\* sorted(res_list, key=Toffoli count, reverse=True): a new list of the same objects.
ObjSortedDesc(h, s) ==
    IF Len(s) = 0 THEN <<>>
    ELSE ObjInsertDesc(h, ObjSortedDesc(h, SubSeq(s, 1, Len(s) - 1)), s[Len(s)])

RECURSIVE ObjStepLoop(_, _, _, _, _)
\* for res in res_list: if res not in res_expensive_frags: step += res * 2
ObjStepLoop(h, step, res_list, i, expensive) ==
    IF i > Len(res_list) THEN [heap |-> h, ref |-> step]
    ELSE IF ~InList(Deref(h, res_list[i]), [j \in 1..Len(expensive) |-> Deref(h, expensive[j])])
           THEN LET twice == HeapMul(h, res_list[i], 2)
                    sum   == HeapAdd(twice.heap, step, twice.ref)
                IN  ObjStepLoop(sum.heap, sum.ref, res_list, i + 1, expensive)
    ELSE ObjStepLoop(h, step, res_list, i + 1, expensive)

\* The step-cost computation of both schemes.
ObjStepCost(h, res_list) ==
    LET res_expensive_frags == SubSeq(ObjSortedDesc(h, res_list), 1, 2)
        first == HeapAdd(h, res_expensive_frags[1], res_expensive_frags[2])
    IN  ObjStepLoop(first.heap, first.ref, res_list, 1, res_expensive_frags)

\* The state after the four unit costs are estimated.  The values that the
\* cells outside the slice compute from the data alone are given: M, the
\* number of mode-based fragments, a norm and the numbers of steps.
InitObj ==
    /\ pc = "obj_list_OG" /\ raised = "none"
    /\ heap \in [1..4 -> ObjUnitSet]
    /\ res_kinetic = <<1>> /\ res_Q = <<2>> /\ res_Qsquared = <<3>> /\ res_QrQs = <<4>>
    /\ M = MaxModes /\ N = Unset /\ k = Unset /\ b = Unset /\ mode_wires = Unset
    /\ num_frags_mode = <<MaxFrags + 1>>
    /\ norm_OG = <<MaxNorm>> /\ norm_mode = <<MaxNorm>>
    /\ nsteps_OG = <<MaxObjSteps>> /\ nsteps_mode = <<MaxObjSteps>>
    /\ res_list_OG = Unset /\ res_list_mode = Unset /\ step_OG_res = Unset /\ step_mode_res = Unset
    /\ res_unitary = Unset
    /\ IdleFrag /\ IdleTot /\ IdleLog /\ IdleAlg /\ IdleQFT

\* Cell "Summing up Cost of Each Fragment" (OG): res_list_OG = [res_kinetic], then the loop.
ObjListOGCell ==
    /\ pc = "obj_list_OG"
    /\ \E frag_counts \in SeqsOf(TermCounts, MaxFrags, MaxFrags) :
          LET built == ObjBuildList(heap, <<res_kinetic>>, frag_counts, 1, res_Q, res_Qsquared, res_QrQs)
              last  == frag_counts[Len(frag_counts)]
          IN  /\ heap' = built.heap
              /\ res_list_OG' = built.list
              /\ res_frag' = built.list[Len(built.list)]
              /\ num_Qr' = <<last[1]>> /\ num_Qr2' = <<last[2]>> /\ num_QrQs' = <<last[3]>>
    /\ pc' = "obj_step_OG"
    /\ UNCHANGED <<raised, res_list_mode, step_OG_res, step_mode_res, num_frags_mode, res_unitary,
                   vUnit, vCir, vNorm, vTot, steps_log, vAlg, vQFT>>

\* Cell "Single Trotter Step Cost (OG)".
ObjStepOGCell ==
    /\ pc = "obj_step_OG"
    /\ LET step == ObjStepCost(heap, res_list_OG)
       IN  heap' = step.heap /\ step_OG_res' = step.ref
    /\ pc' = "obj_mode"
    /\ UNCHANGED <<raised, res_list_OG, res_list_mode, step_mode_res, num_frags_mode, res_unitary,
                   vUnit, vFrag, vCir, vNorm, vTot, steps_log, vAlg, vQFT>>

\* Cell "Summing up Cost of Each Fragment" (mode based): the list, then the step cost.
ObjModeCell ==
    /\ pc = "obj_mode"
    /\ \E frag_counts \in SeqsOf(TermCounts, num_frags_mode[1] - 1, num_frags_mode[1] - 1) :
          LET built == ObjBuildList(heap, <<res_kinetic>>, frag_counts, 1, res_Q, res_Qsquared, res_QrQs)
              last  == frag_counts[Len(frag_counts)]
              step  == ObjStepCost(built.heap, built.list)
          IN  /\ heap' = step.heap
              /\ res_list_mode' = built.list
              /\ res_frag' = built.list[Len(built.list)]
              /\ num_Qr' = <<last[1]>> /\ num_Qr2' = <<last[2]>> /\ num_QrQs' = <<last[3]>>
              /\ step_mode_res' = step.ref
    /\ pc' = "obj_unitary"
    /\ UNCHANGED <<raised, res_list_OG, step_OG_res, num_frags_mode, res_unitary,
                   vUnit, vCir, vNorm, vTot, steps_log, vAlg, vQFT>>

\* Cell "Adding Cost of Unitaries": a new estimate, then a quarter of its T
\* count added to its Toffoli count in the object itself.
ObjUnitaryCell ==
    /\ pc = "obj_unitary"
    /\ \E estimate \in {r \in FragSet : r.g["Toffoli"] = 0} :
          LET new == HeapNew(heap, InQuarters(estimate))
          IN  /\ res_unitary' = new.ref
              /\ heap' = [new.heap EXCEPT ![new.ref[1]] = AddQuarterOfT(estimate)]
    /\ pc' = "obj_add_unitary"
    /\ UNCHANGED <<raised, res_list_OG, res_list_mode, step_OG_res, step_mode_res, num_frags_mode,
                   vUnit, vFrag, vCir, vNorm, vTot, steps_log, vAlg, vQFT>>

\* Cell "Single Step Cost (Mode Based)": step_mode_res += res_unitary*num_frags_mode
ObjAddUnitaryCell ==
    /\ pc = "obj_add_unitary"
    /\ LET copies == HeapMul(heap, res_unitary, num_frags_mode[1])
           sum    == HeapAdd(copies.heap, step_mode_res, copies.ref)
       IN  heap' = sum.heap /\ step_mode_res' = sum.ref
    /\ pc' = "obj_phasegrad"
    /\ UNCHANGED <<raised, res_list_OG, res_list_mode, step_OG_res, num_frags_mode, res_unitary,
                   vUnit, vFrag, vCir, vNorm, vTot, steps_log, vAlg, vQFT>>

\* res_initial = re.estimate_resources(phasegrad_circ, ...)(b, phase_grad_wires)
ObjPhaseGradCell ==
    /\ pc = "obj_phasegrad"
    /\ \E estimate \in ObjUnitSet :
          LET new == HeapNew(heap, estimate)
          IN  heap' = new.heap /\ res_initial' = new.ref
    /\ pc' = "obj_stateprep"
    /\ UNCHANGED <<raised, res_total_OG, res_total_mode, res_list_OG, res_list_mode, step_OG_res,
                   step_mode_res, num_frags_mode, res_unitary,
                   vUnit, vFrag, vCir, vNorm, steps_log, vAlg, vQFT>>

\* res_initial += M*re.estimate_resources(stateprep_circ)(k, mode_wires)
ObjStatePrepCell ==
    /\ pc = "obj_stateprep"
    /\ \E estimate \in ObjUnitSet :
          LET new     == HeapNew(heap, estimate)
              product == HeapMul(new.heap, new.ref, M)
              sum     == HeapAdd(product.heap, res_initial, product.ref)
          IN  heap' = sum.heap /\ res_initial' = sum.ref
    /\ pc' = "obj_total_OG"
    /\ UNCHANGED <<raised, res_total_OG, res_total_mode, res_list_OG, res_list_mode, step_OG_res,
                   step_mode_res, num_frags_mode, res_unitary,
                   vUnit, vFrag, vCir, vNorm, steps_log, vAlg, vQFT>>

\* if norm_OG is not None: res_total_OG = res_initial + step_OG_res*nsteps_OG
ObjTotalOGCell ==
    /\ pc = "obj_total_OG"
    /\ IF norm_OG # None
         THEN LET product == HeapMul(heap, step_OG_res, nsteps_OG[1])
                  sum     == HeapAdd(product.heap, res_initial, product.ref)
              IN  heap' = sum.heap /\ res_total_OG' = sum.ref
         ELSE UNCHANGED <<heap, res_total_OG>>
    /\ pc' = "obj_total_mode"
    /\ UNCHANGED <<raised, res_initial, res_total_mode, res_list_OG, res_list_mode, step_OG_res,
                   step_mode_res, num_frags_mode, res_unitary,
                   vUnit, vFrag, vCir, vNorm, steps_log, vAlg, vQFT>>

\* if norm_OG is not None: res_total_mode = res_initial + step_mode_res*nsteps_mode
ObjTotalModeCell ==
    /\ pc = "obj_total_mode"
    /\ IF norm_OG # None
         THEN LET product == HeapMul(heap, step_mode_res, nsteps_mode[1])
                  sum     == HeapAdd(product.heap, res_initial, product.ref)
              IN  heap' = sum.heap /\ res_total_mode' = sum.ref
         ELSE UNCHANGED <<heap, res_total_mode>>
    /\ pc' = "done"
    /\ UNCHANGED <<raised, res_initial, res_total_OG, res_list_OG, res_list_mode, step_OG_res,
                   step_mode_res, num_frags_mode, res_unitary,
                   vUnit, vFrag, vCir, vNorm, steps_log, vAlg, vQFT>>

NextObj ==
    \/ ObjListOGCell \/ ObjStepOGCell \/ ObjModeCell \/ ObjUnitaryCell \/ ObjAddUnitaryCell
    \/ ObjPhaseGradCell \/ ObjStatePrepCell \/ ObjTotalOGCell \/ ObjTotalModeCell
SpecObj == InitObj /\ [][NextObj]_vars

\* The objects the step and total cost cells read: the four unit costs and
\* the entries of the fragment lists built so far.
ObjInputs ==
    {res_kinetic, res_Q, res_Qsquared, res_QrQs}
        \cup {res_list_OG[i] : i \in 1..Len(res_list_OG)}
        \cup {res_list_mode[i] : i \in 1..Len(res_list_mode)}

\* C16: the OG step-cost, mode-based step-cost, unitary-addition and total
\* cost cells leave their inputs as they were: res_kinetic (entry 0 of both
\* fragment lists), every other entry of both lists, res_Q, res_Qsquared
\* and res_QrQs keep their counts, and no cell that computes the
\* mode-based costs changes step_OG_res.
C16_InputsUnchanged ==
    [][/\ (pc # "obj_list_OG" =>
              /\ \A r \in ObjInputs : Deref(heap', r) = Deref(heap, r)
              /\ res_kinetic' = res_kinetic /\ res_Q' = res_Q
              /\ res_Qsquared' = res_Qsquared /\ res_QrQs' = res_QrQs
              /\ res_list_OG' = res_list_OG /\ res_list_OG'[1] = res_kinetic')
       /\ (pc \notin {"obj_list_OG", "obj_step_OG", "obj_mode"} => res_list_mode' = res_list_mode)
       /\ (pc' \notin {"obj_list_OG", "obj_step_OG", "obj_mode"} =>
              /\ res_list_mode'[1] = res_kinetic'
              /\ res_frag' = res_list_mode'[Len(res_list_mode')]
              /\ Deref(heap', res_frag')
                    = FragCost(num_Qr'[1], num_Qr2'[1], num_QrQs'[1],
                               Deref(heap', res_Q'), Deref(heap', res_Qsquared'), Deref(heap', res_QrQs')))
       /\ (pc \in {"obj_mode", "obj_unitary", "obj_add_unitary"} =>
              /\ step_OG_res' = step_OG_res
              /\ Deref(heap', step_OG_res) = Deref(heap, step_OG_res))]_vars

\* All cells have run over lists whose loop added a fragment twice, with a
\* unitary that holds T gates.
C16_Witness ==
    /\ pc = "done" /\ res_total_OG # Unset /\ res_total_mode # Unset
    /\ res_list_OG[1] = res_kinetic /\ res_list_mode[1] = res_kinetic
    /\ Len(res_list_OG) >= 3 /\ Len(res_list_mode) >= 3
    /\ Toffoli(Deref(heap, step_OG_res))
          > Toffoli(Deref(heap, res_list_OG[1])) + Toffoli(Deref(heap, res_list_OG[2]))
            + Toffoli(Deref(heap, res_list_OG[3]))
    /\ Deref(heap, res_unitary).g["T"] > 0
    /\ Toffoli(Deref(heap, step_mode_res)) % 4 # 0

====
